---- MODULE Spec2Model ----
(***************************************************************************)
(* A model of src/src/main.rs: a CBOW word-embedding trainer with negative *)
(* sampling.  The pipeline of main is parse_corpus, CBOWParams::new, the   *)
(* builder setters, generate_pairs, create_matrices, train, generate_result*)
(* and save_changes.                                                       *)
(*                                                                         *)
(* f32 values are modelled as fixed-point integers in units of 1/Scale.    *)
(* Products and quotients round away from zero, so that, as in f32 over    *)
(* the magnitudes used here, a product of two non-zero values is non-zero. *)
(***************************************************************************)
EXTENDS Integers, Sequences, FiniteSets, TLC

\* ------------------------------------------------------------------ bounds
Scale == 100          \* fixed-point units per 1.0
MaxTokens == 6        \* longest token stream given to the tokenizer alone
MaxTrainTokens == 3   \* longest token stream run through the whole pipeline
MaxCorpusLen == 5     \* longest encoded corpus given to generate_pairs alone
MaxId == 3            \* largest id in such a corpus
MaxVocab == 4         \* largest vocab_size given to CBOWParams::new alone
MaxHalfWindow == 1    \* largest argument of set_window_size
MaxDim == 2           \* largest argument of set_embeddings_dimension
MaxSamples == 1       \* largest argument of set_random_samples
MaxEpochs == 2        \* largest argument of set_epochs
RngPeriod == 1        \* period of the streams of standard-normal draws
ExpTerms == 24        \* terms of the series that evaluates exp

\* ------------------------------------------------------- program constants
DefaultWindow == 2
DefaultRandomSamples == 30
DefaultDimension == 100
DefaultEpochs == 100
DefaultMean == 0
DefaultStdDev == Scale \div 100
DefaultLearningRate == Scale \div 100

\* --------------------------------------------------------------- input sets
Words == {"uno", "dos", "tres", "cinco", "and"}
TrainWords == {"uno", "dos"}
\* stop_words::get(English), restricted to Words
StopWords == {"and"}
Means == {Scale}
StdDevs == {0 - Scale, 0, Scale}
LearningRates == {Scale \div 2}
\* standard-normal draws z; a sample is mean + std_dev * z
ZVals == {0 - Scale, Scale}

SeqsUpTo(S, n) == UNION {[1..k -> S] : k \in 0..n}

VARIABLES
  pc,            \* position in the pipeline
  clean_corpus,  \* the token stream handed to populate
  words_map,     \* CorpusValues.words_map
  vec,           \* CorpusValues.vec
  params,        \* CBOWParams
  half_window,   \* the argument of the latest set_window_size (or the default)
  pairs,         \* result of generate_pairs
  input_layer,   \* the input matrix
  hidden_layer,  \* the output matrix
  input_init,    \* the input matrix as create_matrices returned it
  epoch,         \* train: the epoch being run
  pair_idx,      \* train: the pair visited next (1-based)
  visited,       \* train: the pairs visited so far, as <<epoch, index>>
  negs,          \* train: what get_random_indices returned in the latest step
  sampled,       \* train: every id get_random_indices has returned
  values         \* main: the records built by generate_result

vars == <<pc, clean_corpus, words_map, vec, params, half_window, pairs,
          input_layer, hidden_layer, input_init, epoch, pair_idx, visited,
          negs, sampled, values>>

\* ------------------------------------------------------------- arithmetic
Abs(x) == IF x < 0 THEN 0 - x ELSE x
Sgn(x) == IF x < 0 THEN 0 - 1 ELSE IF x = 0 THEN 0 ELSE 1
Min(a, b) == IF a < b THEN a ELSE b
Max(a, b) == IF a < b THEN b ELSE a

\* n / d for d > 0, rounded away from zero
DivAway(n, d) == Sgn(n) * ((Abs(n) + d - 1) \div d)
\* f32 multiplication
Mul(a, b) == DivAway(a * b, Scale)

RECURSIVE SumSeq(_)
SumSeq(s) == IF s = <<>> THEN 0 ELSE Head(s) + SumSeq(Tail(s))

\* n / d for n >= 0, d > 0, rounded to nearest
DivNear(n, d) == (2 * n + d) \div (2 * d)

\* exp(y) for y >= 0 by its power series; k is the next term's index
RECURSIVE ExpSeries(_, _, _, _)
ExpSeries(y, k, term, acc) ==
  IF k > ExpTerms THEN acc
  ELSE LET t == DivNear(term * y, k * Scale)
       IN  ExpSeries(y, k + 1, t, acc + t)

\* beyond |y| = 6 the sigmoid below is saturated at this precision
ExpMax == 6 * Scale
\* f32::exp
Exp(y) ==
  IF y >= 0 THEN ExpSeries(Min(y, ExpMax), 1, Scale, Scale)
  ELSE DivNear(Scale * Scale, ExpSeries(Min(0 - y, ExpMax), 1, Scale, Scale))

\* 1.0 / (1.0 + (-x).exp()), a value strictly between 0 and 1, tabulated
\* over the arguments where it is not saturated
SigmoidTable[x \in (0 - ExpMax)..ExpMax] ==
  Max(1, Min(Scale - 1, DivNear(Scale * Scale, Scale + Exp(0 - x))))

\* sigmoid
sigmoid(x) == SigmoidTable[Max(0 - ExpMax, Min(ExpMax, x))]

\* ------------------------------------------------------------- tokenizer
\* CorpusValues::new
CorpusValuesNew == [words_map |-> <<>>, vec |-> <<>>]

\* populate with the repeated-word branch pushing the running index
PopulateWordNoReuse(self, index, word) ==
  IF word \in StopWords THEN [self |-> self, index |-> index]
  ELSE IF word \in DOMAIN self.words_map
       THEN [self |-> [self EXCEPT !.vec = Append(@, index)], index |-> index]
       ELSE [self  |-> [words_map |-> [w \in DOMAIN self.words_map \cup {word} |->
                                         IF w = word THEN index
                                         ELSE self.words_map[w]],
                        vec       |-> Append(self.vec, index)],
             index |-> index + 1]

\* populate with the index incremented before it is stored
PopulateWordFromOne(self, index, word) ==
  IF word \in StopWords THEN [self |-> self, index |-> index]
  ELSE IF word \in DOMAIN self.words_map
       THEN [self  |-> [self EXCEPT !.vec = Append(@, self.words_map[word])],
             index |-> index]
       ELSE [self  |-> [words_map |-> [w \in DOMAIN self.words_map \cup {word} |->
                                         IF w = word THEN index + 1
                                         ELSE self.words_map[w]],
                        vec       |-> Append(self.vec, index + 1)],
             index |-> index + 1]

\* the body of the for loop of populate, for one word
PopulateWord(self, index, word) ==
  IF word \in StopWords THEN [self |-> self, index |-> index]
  ELSE IF word \in DOMAIN self.words_map
       THEN [self  |-> [self EXCEPT !.vec = Append(@, self.words_map[word])],
             index |-> index]
       ELSE [self  |-> [words_map |-> [w \in DOMAIN self.words_map \cup {word} |->
                                         IF w = word THEN index
                                         ELSE self.words_map[w]],
                        vec       |-> Append(self.vec, index)],
             index |-> index + 1]

RECURSIVE PopulateLoop(_, _, _)
PopulateLoop(self, index, tokens) ==
  IF tokens = <<>> THEN self
  ELSE LET r == PopulateWord(self, index, Head(tokens))
       IN  PopulateLoop(r.self, r.index, Tail(tokens))

\* CorpusValues::populate: index starts at 0
populate(self, tokens) == PopulateLoop(self, 0, tokens)

\* parse_corpus, from the whitespace-split tokens of the cleaned text on
parse_corpus(tokens) == populate(CorpusValuesNew, tokens)

\* -------------------------------------------------------------- CBOWParams
\* CBOWParams::default
default ==
  [vocab_size           |-> 0,
   random_samples       |-> DefaultRandomSamples,
   embeddings_dimension |-> DefaultDimension,
   mean                 |-> DefaultMean,
   std_dev              |-> DefaultStdDev,
   window_size          |-> DefaultWindow * 2 + 1,
   target               |-> DefaultWindow,
   learning_rate        |-> DefaultLearningRate,
   epochs               |-> DefaultEpochs]

\* CBOWParams::new
new(vocab_size) == [default EXCEPT !.vocab_size = vocab_size]

set_random_samples(self, random_samples) ==
  [self EXCEPT !.random_samples = random_samples]
set_embeddings_dimension(self, embeddings_dimension) ==
  [self EXCEPT !.embeddings_dimension = embeddings_dimension]
set_mean(self, mean) == [self EXCEPT !.mean = mean]
set_std_dev(self, std_dev) == [self EXCEPT !.std_dev = std_dev]
\* set_window_size that forgets to move the target
set_window_size_stale_target(self, window_size) ==
  [self EXCEPT !.window_size = window_size * 2 + 1]
set_window_size(self, window_size) ==
  [self EXCEPT !.window_size = window_size * 2 + 1, !.target = window_size]
set_learning_rate(self, learning_rate) ==
  [self EXCEPT !.learning_rate = learning_rate]
set_epochs(self, epochs) == [self EXCEPT !.epochs = epochs]

\* Normal::new(mean, std_dev): a NaN or infinite std_dev is always refused
\* (not representable here); a negative one is refused by rand_distr up to
\* 0.3 and accepted (mirrored) from 0.4 on; zero is accepted by every version.
NormalNew(mean, std_dev) ==
  IF std_dev < 0 THEN {"Ok", "Err"} ELSE {"Ok"}

\* the streams of standard-normal draws thread_rng may deliver
ZStreams == [0..(RngPeriod - 1) -> ZVals]

\* create_matrices once Normal::new succeeded; draw k is zs[k % RngPeriod]
create_matrices(self, zs) ==
  [input  |-> [k \in 1..(self.vocab_size * self.embeddings_dimension) |->
                 self.mean + Mul(self.std_dev, zs[(k - 1) % RngPeriod])],
   output |-> [k \in 1..(self.vocab_size * self.embeddings_dimension) |-> 0]]

\* Vec::remove one position too far
RemoveAfter(w, at) ==
  [k \in 1..(Len(w) - 1) |-> IF k <= at + 1 /\ k < Len(w) THEN w[k] ELSE w[k + 1]]
\* Vec::remove(at), for at < Len(w)
RemoveAt(w, at) == [k \in 1..(Len(w) - 1) |-> IF k <= at THEN w[k] ELSE w[k + 1]]
\* the window of `size` elements that starts at offset i
Window(corpus, i, size) == [k \in 1..size |-> corpus[i + k]]
\* generate_pairs that computes len - window_size + 1 first, which underflows
\* on a corpus shorter than the window
generate_pairs_underflow(self, corpus) ==
  IF self.window_size = 0 \/ Len(corpus) < self.window_size
     \/ self.target >= self.window_size
  THEN [panicked |-> TRUE, pairs |-> <<>>]
  ELSE [panicked |-> FALSE,
        pairs |->
          [i \in 1..(Len(corpus) - self.window_size + 1) |->
             LET window == Window(corpus, i - 1, self.window_size)
             IN  [context |-> RemoveAt(window, self.target),
                  target  |-> window[self.target + 1]]]]

\* generate_pairs: slice::windows panics on size 0, Vec::remove on an index
\* that is not below the length
generate_pairs(self, corpus) ==
  IF self.window_size = 0
     \/ (Len(corpus) >= self.window_size /\ self.target >= self.window_size)
  THEN [panicked |-> TRUE, pairs |-> <<>>]
  ELSE [panicked |-> FALSE,
        pairs |->
          IF Len(corpus) < self.window_size THEN <<>>
          ELSE [i \in 1..(Len(corpus) - self.window_size + 1) |->
                  LET window == Window(corpus, i - 1, self.window_size)
                  IN  [context |-> RemoveAt(window, self.target),
                       target  |-> window[self.target + 1]]]]

\* ---------------------------------------------------------------- sampler
\* the predicate of the filter of get_random_indices
Keeps(x, target) == x = target

RECURSIVE Filter(_, _)
Filter(s, target) ==
  IF s = <<>> THEN <<>>
  ELSE IF Keeps(Head(s), target) THEN <<Head(s)>> \o Filter(Tail(s), target)
       ELSE Filter(Tail(s), target)

\* the sequences of n distinct elements of S
RECURSIVE Arrangements(_, _)
Arrangements(S, n) ==
  IF n = 0 THEN {<<>>}
  ELSE UNION {{<<i>> \o t : t \in Arrangements(S \ {i}, n - 1)} : i \in S}

\* slice.choose_multiple(rng, amount): min(amount, len) elements at distinct
\* positions, in any order
ChooseMultiple(corpus, amount) ==
  {[k \in 1..Len(p) |-> corpus[p[k]]] :
     p \in Arrangements(1..Len(corpus), Min(amount, Len(corpus)))}

\* get_random_indices: every result the random choice can give
get_random_indices(self, target, corpus) ==
  {Filter(s, target) : s \in ChooseMultiple(corpus, self.random_samples)}

\* ---------------------------------------------------------------- trainer
\* a Vec<f32> holding the entries of f, each worked out once
Vector(f) == f \o <<>>

\* embeddings[k] for a 0-based k
At(embeddings, k) == embeddings[k + 1]

\* get_context_embedding: the sum of the context rows, per position
get_context_embedding(context_indices, embeddings_dimension, embeddings) ==
  Vector([c \in 1..embeddings_dimension |->
            SumSeq([j \in 1..Len(context_indices) |->
                      At(embeddings,
                         (c - 1) + context_indices[j] * embeddings_dimension)])])

\* f = sum of neu1[i] * hidden_layer[i + l2]
Dot(neu1, hidden, l2) ==
  SumSeq([i \in 1..Len(neu1) |-> Mul(neu1[i], At(hidden, (i - 1) + l2))])

\* hidden_layer[c + l2] += g * neu1[c] for every c
AddRow(hidden, l2, g, neu1) ==
  Vector([k \in 1..Len(hidden) |->
            IF k - 1 >= l2 /\ k - 1 < l2 + Len(neu1)
            THEN hidden[k] + Mul(g, neu1[k - l2])
            ELSE hidden[k]])

\* the positive update of one step
PositiveUpdate(self, neu1, target, hidden) ==
  LET target_l2 == target * self.embeddings_dimension
      f == Dot(neu1, hidden, target_l2)
      g == Mul(Scale - sigmoid(f), self.learning_rate)
  IN  [neu1e  |-> Vector([c \in 1..self.embeddings_dimension |->
                            Mul(g, At(hidden, (c - 1) + target_l2))]),
       hidden |-> AddRow(hidden, target_l2, g, neu1)]

\* the loop over the negative targets, in the order they were returned
RECURSIVE NegativeUpdates(_, _, _, _, _)
NegativeUpdates(self, neu1, negatives, neu1e, hidden) ==
  IF negatives = <<>> THEN [neu1e |-> neu1e, hidden |-> hidden]
  ELSE LET l2 == Head(negatives) * self.embeddings_dimension
           f == Dot(neu1, hidden, l2)
           g == Mul(0 - sigmoid(f), self.learning_rate)
       IN  NegativeUpdates(self, neu1, Tail(negatives),
             Vector([c \in 1..self.embeddings_dimension |->
                       neu1e[c] + Mul(g, At(hidden, (c - 1) + l2))]),
             AddRow(hidden, l2, g, neu1))

\* how many times id occurs in context
Occurrences(context, id) == Cardinality({j \in 1..Len(context) : context[j] = id})

\* backpropagation that adds neu1e to every row
BackwardEveryRow(self, context, neu1e, input) ==
  Vector([k \in 1..Len(input) |->
            IF self.embeddings_dimension = 0 THEN input[k]
            ELSE input[k] + neu1e[((k - 1) % self.embeddings_dimension) + 1]])

\* backpropagation: every occurrence of an id in the context adds neu1e to its row
Backward(self, context, neu1e, input) ==
  Vector([k \in 1..Len(input) |->
            IF self.embeddings_dimension = 0 THEN input[k]
            ELSE input[k]
                 + Occurrences(context, (k - 1) \div self.embeddings_dimension)
                   * neu1e[((k - 1) % self.embeddings_dimension) + 1]])

\* the flattened indices one step reads or writes, per matrix
InputIndices(self, pair) ==
  {c + pair.context[j] * self.embeddings_dimension :
     c \in 0..(self.embeddings_dimension - 1), j \in 1..Len(pair.context)}
HiddenIndices(self, pair, negatives) ==
  {c + id * self.embeddings_dimension :
     c \in 0..(self.embeddings_dimension - 1),
     id \in {pair.target} \cup {negatives[j] : j \in 1..Len(negatives)}}

\* the body of the loops of train for one pair; an index out of bounds panics
train_step(self, pair, negatives, input, hidden) ==
  IF \/ \E k \in InputIndices(self, pair) : k >= Len(input)
     \/ \E k \in HiddenIndices(self, pair, negatives) : k >= Len(hidden)
  THEN [panicked |-> TRUE, input |-> input, hidden |-> hidden]
  ELSE LET neu1 == get_context_embedding(pair.context, self.embeddings_dimension, input)
           pos == PositiveUpdate(self, neu1, pair.target, hidden)
           neg == NegativeUpdates(self, neu1, negatives, pos.neu1e, pos.hidden)
       IN  [panicked |-> FALSE,
            input    |-> Backward(self, pair.context, neg.neu1e, input),
            hidden   |-> neg.hidden]

\* ---------------------------------------------------------- result emitter
\* generate_result: the index-th row of embeddings
generate_result(word, index, embeddings, embeddings_dimension) ==
  [word      |-> word,
   embedding |-> [position \in 1..embeddings_dimension |->
                    At(embeddings, (position - 1) + index * embeddings_dimension)]]
ResultInBounds(index, embeddings, embeddings_dimension) ==
  \A position \in 0..(embeddings_dimension - 1) :
     position + index * embeddings_dimension < Len(embeddings)

\* the orders in which HashMap::into_iter may deliver the entries
Orders(S) == {p \in [1..Cardinality(S) -> S] : \A a, b \in DOMAIN p : a # b => p[a] # p[b]}

\* ---------------------------------------------------------------- actions
Blank ==
  /\ words_map = <<>>
  /\ pairs = <<>>
  /\ input_layer = <<>>
  /\ hidden_layer = <<>>
  /\ input_init = <<>>
  /\ epoch = 0
  /\ pair_idx = 1
  /\ visited = <<>>
  /\ negs = <<>>
  /\ sampled = {}
  /\ values = <<>>

\* main: let corpus = parse_corpus(raw_corpus)
ParseCorpus ==
  /\ pc = "parse"
  /\ LET corpus == parse_corpus(clean_corpus)
     IN  /\ words_map' = corpus.words_map
         /\ vec' = corpus.vec
  /\ pc' = "new"
  /\ UNCHANGED <<clean_corpus, params, half_window, pairs, input_layer,
                 hidden_layer, input_init, epoch, pair_idx, visited, negs,
                 sampled, values>>

\* main: CBOWParams::new(corpus.words_map.len())
New ==
  /\ pc = "new"
  /\ params' = new(Cardinality(DOMAIN words_map))
  /\ half_window' = DefaultWindow
  /\ pc' = "config"
  /\ UNCHANGED <<clean_corpus, words_map, vec, pairs, input_layer,
                 hidden_layer, input_init, epoch, pair_idx, visited, negs,
                 sampled, values>>

Configure(p) ==
  /\ pc = "config"
  /\ params' = p
  /\ UNCHANGED <<pc, clean_corpus, words_map, vec, pairs, input_layer,
                 hidden_layer, input_init, epoch, pair_idx, visited, negs,
                 sampled, values>>

SetWindowSize ==
  \E w \in 0..MaxHalfWindow :
     Configure(set_window_size(params, w)) /\ half_window' = w
SetEmbeddingsDimension ==
  \E d \in 1..MaxDim :
     Configure(set_embeddings_dimension(params, d)) /\ UNCHANGED half_window
SetRandomSamples ==
  \E n \in 0..MaxSamples :
     Configure(set_random_samples(params, n)) /\ UNCHANGED half_window
SetEpochs ==
  \E e \in 0..MaxEpochs :
     Configure(set_epochs(params, e)) /\ UNCHANGED half_window
SetMean ==
  \E m \in Means : Configure(set_mean(params, m)) /\ UNCHANGED half_window
SetStdDev ==
  \E sd \in StdDevs : Configure(set_std_dev(params, sd)) /\ UNCHANGED half_window
SetLearningRate ==
  \E lr \in LearningRates :
     Configure(set_learning_rate(params, lr)) /\ UNCHANGED half_window

\* cbow_params.generate_pairs(&corpus.vec)
GeneratePairs ==
  /\ pc = "config"
  /\ LET r == generate_pairs(params, vec)
     IN  /\ pairs' = r.pairs
         /\ pc' = IF r.panicked THEN "panic" ELSE "paired"
  /\ UNCHANGED <<clean_corpus, words_map, vec, params, half_window,
                 input_layer, hidden_layer, input_init, epoch, pair_idx,
                 visited, negs, sampled, values>>

\* cbow_params.create_matrices(), called at `at`; the unwrap of a refused
\* distribution panics
CreateMatricesAt(at) ==
  /\ pc = at
  /\ \E outcome \in NormalNew(params.mean, params.std_dev) :
        IF outcome = "Err"
        THEN /\ pc' = "panic"
             /\ UNCHANGED <<input_layer, hidden_layer, input_init>>
        ELSE \E zs \in ZStreams :
                LET m == create_matrices(params, zs)
                IN  /\ input_layer' = m.input
                    /\ hidden_layer' = m.output
                    /\ input_init' = m.input
                    /\ pc' = IF at = "paired" THEN "train" ELSE "created"
  /\ UNCHANGED <<clean_corpus, words_map, vec, params, half_window, pairs,
                 epoch, pair_idx, visited, negs, sampled, values>>

\* the work of one run is capped: rows of at most MaxDim entries and, when
\* there are pairs to visit, at most MaxEpochs epochs
Capped ==
  /\ params.embeddings_dimension <= MaxDim
  /\ params.epochs <= MaxEpochs \/ pairs = <<>>

\* loops that leave the epoch one pair early
AdvanceEarly(e, i, n) ==
  IF i + 1 >= n THEN [epoch |-> e + 1, pair_idx |-> 1]
  ELSE [epoch |-> e, pair_idx |-> i + 1]

\* the two for loops of train: the pair after pair_idx of n, the next epoch
\* after the last one
Advance(e, i, n) ==
  IF i = n THEN [epoch |-> e + 1, pair_idx |-> 1]
  ELSE [epoch |-> e, pair_idx |-> i + 1]

\* main: after generate_pairs
CreateMatrices == Capped /\ CreateMatricesAt("paired")
\* tests::test_create_matrices: right after the configuration
TestCreateMatrices == CreateMatricesAt("config")

\* the loops of train have a pair to visit
MorePairs ==
  /\ pc = "train"
  /\ Capped
  /\ epoch < params.epochs
  /\ pair_idx <= Len(pairs)

\* train: one pass of the inner loop body
TrainStep ==
  /\ MorePairs
  /\ LET pair == pairs[pair_idx]
     IN  \E negatives \in get_random_indices(params, pair.target, vec) :
            LET r == train_step(params, pair, negatives, input_layer, hidden_layer)
            IN  /\ input_layer' = r.input
                /\ hidden_layer' = r.hidden
                /\ negs' = negatives
                /\ sampled' = sampled \cup {negatives[j] : j \in 1..Len(negatives)}
                /\ visited' = Append(visited, <<epoch, pair_idx>>)
                /\ IF r.panicked
                   THEN pc' = "panic" /\ UNCHANGED <<epoch, pair_idx>>
                   ELSE /\ pc' = pc
                        /\ epoch' = Advance(epoch, pair_idx, Len(pairs)).epoch
                        /\ pair_idx' = Advance(epoch, pair_idx, Len(pairs)).pair_idx
  /\ UNCHANGED <<clean_corpus, words_map, vec, params, half_window, pairs,
                 input_init, values>>

\* train returns: the epochs are over, or there is no pair to visit
TrainReturn ==
  /\ pc = "train"
  /\ epoch >= params.epochs \/ pairs = <<>>
  /\ pc' = "emit"
  /\ UNCHANGED <<clean_corpus, words_map, vec, params, half_window, pairs,
                 input_layer, hidden_layer, input_init, epoch, pair_idx,
                 visited, negs, sampled, values>>

\* main: one generate_result per entry of words_map, then save_changes
GenerateResults ==
  /\ pc = "emit"
  /\ \E order \in Orders(DOMAIN words_map) :
        IF \A k \in DOMAIN order :
              ResultInBounds(words_map[order[k]], input_layer,
                             params.embeddings_dimension)
        THEN /\ values' = [k \in DOMAIN order |->
                             generate_result(order[k], words_map[order[k]],
                                             input_layer,
                                             params.embeddings_dimension)]
             /\ pc' = "done"
        ELSE values' = values /\ pc' = "panic"
  /\ UNCHANGED <<clean_corpus, words_map, vec, params, half_window, pairs,
                 input_layer, hidden_layer, input_init, epoch, pair_idx,
                 visited, negs, sampled>>

\* ---------------------------------------------------------- specifications
\* main, on every token stream of up to MaxTrainTokens words
Init ==
  /\ pc = "parse"
  /\ clean_corpus \in SeqsUpTo(TrainWords, MaxTrainTokens)
  /\ vec = <<>>
  /\ params = default
  /\ half_window = DefaultWindow
  /\ Blank

Next ==
  \/ ParseCorpus
  \/ New
  \/ SetWindowSize
  \/ SetEmbeddingsDimension
  \/ SetRandomSamples
  \/ SetEpochs
  \/ GeneratePairs
  \/ CreateMatrices
  \/ TrainStep
  \/ TrainReturn
  \/ GenerateResults

Spec == Init /\ [][Next]_vars

\* the tokenizer alone, on every token stream of up to MaxTokens words
InitTok ==
  /\ pc = "parse"
  /\ clean_corpus \in SeqsUpTo(Words, MaxTokens)
  /\ vec = <<>>
  /\ params = default
  /\ half_window = DefaultWindow
  /\ Blank

NextTok == ParseCorpus

SpecTok == InitTok /\ [][NextTok]_vars

\* the builder and create_matrices, from CBOWParams::new(vocab_size)
InitCfg ==
  /\ pc = "config"
  /\ clean_corpus = <<>>
  /\ vec = <<>>
  /\ params \in {new(v) : v \in 0..MaxVocab}
  /\ half_window = DefaultWindow
  /\ Blank

NextCfg ==
  \/ SetWindowSize
  \/ SetEmbeddingsDimension
  \/ SetRandomSamples
  \/ SetEpochs
  \/ SetMean
  \/ SetStdDev
  \/ SetLearningRate
  \/ TestCreateMatrices

SpecCfg == InitCfg /\ [][NextCfg]_vars

\* generate_pairs on every encoded corpus of up to MaxCorpusLen ids
InitPairs ==
  /\ pc = "config"
  /\ clean_corpus = <<>>
  /\ vec \in SeqsUpTo(0..MaxId, MaxCorpusLen)
  /\ params = new(MaxId + 1)
  /\ half_window = DefaultWindow
  /\ Blank

NextPairs ==
  \/ SetWindowSize
  \/ GeneratePairs

SpecPairs == InitPairs /\ [][NextPairs]_vars

\* ------------------------------------------------------------------ claims
NotStop(w) == w \notin StopWords
\* the retained tokens of the stream, in order
Retained == SelectSeq(clean_corpus, NotStop)
\* the position of the first occurrence of w in s
FirstAt(s, w) == CHOOSE k \in 1..Len(s) : s[k] = w /\ \A j \in 1..(k - 1) : s[j] # w
ExampleStream == <<"uno", "and", "dos", "tres", "uno", "cinco">>
ExampleMap ==
  [w \in {"uno", "dos", "tres", "cinco"} |->
     IF w = "uno" THEN 0 ELSE IF w = "dos" THEN 1 ELSE IF w = "tres" THEN 2 ELSE 3]

\* C2: the tokenizer gives ids in order of first occurrence of the retained
\* tokens, from 0 up by 1: the ids are distinct and are exactly
\* 0..vocab_size-1, the encoded corpus has one entry per retained token, in
\* order, each the id of that token; the example stream gives the example
\* vocabulary and [0,1,2,0,3].
C2_FirstOccurrenceIds ==
  pc = "new" =>
    /\ DOMAIN words_map = {Retained[k] : k \in 1..Len(Retained)}
    /\ {words_map[w] : w \in DOMAIN words_map}
         = 0..(Cardinality(DOMAIN words_map) - 1)
    /\ \A a, b \in DOMAIN words_map : a # b => words_map[a] # words_map[b]
    /\ \A a, b \in DOMAIN words_map :
          words_map[a] < words_map[b] <=> FirstAt(Retained, a) < FirstAt(Retained, b)
    /\ Len(vec) = Len(Retained)
    /\ \A k \in 1..Len(vec) : vec[k] = words_map[Retained[k]]
    /\ clean_corpus = ExampleStream =>
          words_map = ExampleMap /\ vec = <<0, 1, 2, 0, 3>>

C2_Witness == pc = "new" /\ clean_corpus = ExampleStream /\ vec = <<0, 1, 2, 0, 3>>

\* C3: generate_pairs does not panic and returns max(0, len - window_size + 1)
\* pairs in corpus order; pair i has the element at offset w of the window
\* corpus[i .. i+window_size) as target and the other 2w elements, in order,
\* as context; a corpus shorter than the window gives no pair, and
\* [0,1,2,0,3] with w = 2 gives the single pair ([0,1,0,3], 2).
C3_PairsOfWindows ==
  pc \in {"paired", "panic"} =>
    /\ pc = "paired"
    /\ Len(pairs) = Max(0, Len(vec) - (2 * half_window + 1) + 1)
    /\ \A i \in 1..Len(pairs) :
          /\ pairs[i].target = vec[i + half_window]
          /\ Len(pairs[i].context) = 2 * half_window
          /\ \A k \in 1..(2 * half_window) :
                pairs[i].context[k] =
                  IF k <= half_window THEN vec[i + k - 1] ELSE vec[i + k]
    /\ Len(vec) < 2 * half_window + 1 => pairs = <<>>
    /\ (vec = <<0, 1, 2, 0, 3>> /\ half_window = 2) =>
          pairs = <<[context |-> <<0, 1, 0, 3>>, target |-> 2]>>

C3_Witness ==
  /\ pc = "paired"
  /\ vec = <<0, 1, 2, 0, 3>>
  /\ half_window = 2
  /\ pairs = <<[context |-> <<0, 1, 0, 3>>, target |-> 2]>>

\* C4: create_matrices on CBOWParams::new(4), left at its defaults, returns
\* two matrices of equal length vocab_size * embeddings_dimension = 12.
C4_DefaultMatricesLength ==
  (pc = "created" /\ params = new(4)) =>
    /\ Len(input_layer) = Len(hidden_layer)
    /\ Len(input_layer) = params.vocab_size * params.embeddings_dimension
    /\ Len(input_layer) = 12

\* C6: with a non-positive std_dev (negative or exactly zero) create_matrices
\* fails and returns no matrices.
C6_NonPositiveStdDevFails ==
  pc = "created" => params.std_dev > 0

\* C8: in every configuration the builder can reach, window_size is
\* 2 * half_window + 1 and target is half_window for the latest configured
\* half_window (2, hence window_size 5, by default); the other setters leave
\* both alone; so target < window_size and window_size >= 1.
C8_WindowInvariant ==
  /\ params.window_size = 2 * half_window + 1
  /\ params.target = half_window
  /\ params.target < params.window_size
  /\ params.window_size >= 1
  /\ half_window = DefaultWindow => params.window_size = 5

C8_Witness ==
  /\ pc = "config"
  /\ half_window = 1
  /\ params.window_size = 3
  /\ params.epochs # DefaultEpochs
  /\ params.mean # DefaultMean
  /\ params.std_dev # DefaultStdDev
  /\ params.learning_rate # DefaultLearningRate
  /\ params.random_samples # DefaultRandomSamples
  /\ params.embeddings_dimension # DefaultDimension

\* the id-th row of a matrix
Row(m, id) ==
  [c \in 1..params.embeddings_dimension |->
     At(m, (c - 1) + id * params.embeddings_dimension)]
ZeroRow == [c \in 1..params.embeddings_dimension |-> 0]
ContextIds ==
  UNION {{pairs[i].context[j] : j \in 1..Len(pairs[i].context)} : i \in 1..Len(pairs)}
TargetIds == {pairs[i].target : i \in 1..Len(pairs)}
Ids == 0..(params.vocab_size - 1)
\* the target of the step taken last
LastTarget == pairs[visited[Len(visited)][2]].target
Trained == pc \in {"emit", "done"}

\* C1: the list get_random_indices returns holds no element equal to the
\* true target id.
C1_SamplerExcludesTarget ==
  visited # <<>> => \A j \in 1..Len(negs) : negs[j] # LastTarget

C7_ShortCorpusNoOp ==
  (Len(vec) < params.window_size /\ pc \notin {"parse", "new", "config"}) =>
    /\ pc # "panic"
    /\ pairs = <<>>
    /\ visited = <<>>
    /\ pc \in {"train", "emit", "done"} =>
          /\ input_layer = input_init
          /\ \A k \in 1..Len(hidden_layer) : hidden_layer[k] = 0
    /\ pc = "train" => ENABLED TrainReturn
    /\ pc = "emit" => ENABLED GenerateResults
    /\ pc = "done" =>
          /\ Len(values) = Cardinality(DOMAIN words_map)
          /\ \A w \in DOMAIN words_map :
                \E k \in 1..Len(values) :
                   values[k] = [word |-> w,
                                embedding |-> Row(input_init, words_map[w])]

C7_Witness ==
  /\ pc = "done"
  /\ Len(vec) < params.window_size
  /\ Len(values) = 2
  /\ params.epochs > 0

\* C9: train takes exactly epochs * |pairs| steps, the pairs in list order
\* within an epoch and the epochs in sequence, one step per (epoch, pair)
\* whatever the sampler returns, and it reaches its end after the last pair
\* of the last epoch.
C9_LinearSteps ==
  pc \in {"train", "emit", "done", "panic"} =>
    /\ pc # "panic"
    /\ \A k \in 1..Len(visited) :
          visited[k] = <<(k - 1) \div Len(pairs), ((k - 1) % Len(pairs)) + 1>>
    /\ Len(visited) <= params.epochs * Len(pairs)
    /\ Trained => Len(visited) = params.epochs * Len(pairs)
    /\ (pc = "train" /\ Capped) =>
          /\ Len(visited) = epoch * Len(pairs) + (pair_idx - 1)
          /\ Len(visited) < params.epochs * Len(pairs) => MorePairs
          /\ Len(visited) = params.epochs * Len(pairs) => ENABLED TrainReturn

C9_Witness ==
  /\ pc = "done"
  /\ params.epochs = 2
  /\ Len(pairs) >= 2
  /\ Len(visited) = 2 * Len(pairs)
  /\ negs = <<>>
  /\ sampled # {}

\* C10: with the vocabulary and corpus of the tokenizer, vocab_size the size
\* of the vocabulary, the pairs of generate_pairs and the matrices of
\* create_matrices, every flattened index used by a training step or by
\* generate_result is in [0, vocab_size * embeddings_dimension): no access
\* is out of bounds.
C10_IndexSafety ==
  /\ pc # "panic"
  /\ pc \in {"train", "emit", "done"} =>
       LET size == params.vocab_size * params.embeddings_dimension
       IN  /\ Len(input_layer) = size
           /\ Len(hidden_layer) = size
           /\ \A i \in 1..Len(pairs) :
                 /\ \A k \in InputIndices(params, pairs[i]) : k >= 0 /\ k < size
                 /\ \A k \in HiddenIndices(params, pairs[i], negs) : k >= 0 /\ k < size
           /\ \A w \in DOMAIN words_map :
                 ResultInBounds(words_map[w], input_layer, params.embeddings_dimension)

C10_Witness ==
  /\ pc = "done"
  /\ params.vocab_size = 2
  /\ params.embeddings_dimension = 2
  /\ visited # <<>>
  /\ negs # <<>>
  /\ Len(values) = 2

====
